---- MODULE Spec2Model ----
(***************************************************************************)
(* Model of database/database.py: the Database store of the stamp          *)
(* collection (tables stamps and postage_rates in one SQLite file).        *)
(*                                                                         *)
(* Monetary values are held in thousandths of the currency unit            *)
(* (0.85 EUR is 850, 100 ITL is 100000), always non-negative.              *)
(*                                                                         *)
(* schema.sql and init_data.sql are read from the specification: ids are   *)
(* INTEGER PRIMARY KEY rowids, postage_rates.name is UNIQUE, updated_at    *)
(* defaults to CURRENT_TIMESTAMP, and foreign keys are not enforced (the   *)
(* connection never enables them).  load_sample_data runs a script whose   *)
(* rows are not known and is left out.                                     *)
(***************************************************************************)
EXTENDS Integers, Sequences, FiniteSets, TLC

(***************************************************************************)
(* Python float arithmetic (IEEE-754 binary64, round to nearest, ties to   *)
(* even).  A float is [m |-> significand bits, most significant first,     *)
(* e |-> exponent], of value ToInt(m) * 2^e; the significand has Prec bits *)
(* and starts with 1.  Zero is handled by the callers.                     *)
(***************************************************************************)
Prec == 53

RECURSIVE ToBits(_)
ToBits(n) == IF n = 0 THEN <<>> ELSE ToBits(n \div 2) \o <<n % 2>>

RECURSIVE ToInt(_)
ToInt(bits) ==
    IF bits = <<>> THEN 0
    ELSE 2 * ToInt(SubSeq(bits, 1, Len(bits) - 1)) + bits[Len(bits)]

\* The ten-bit string of n (0 <= n < 1024).
Bits10(n) == [i \in 1..10 |-> (n \div 2^(10 - i)) % 2]

\* bits + 1; one bit longer when bits is all ones.
IncBits(bits) ==
    LET zeros == {i \in 1..Len(bits) : bits[i] = 0}
    IN  IF zeros = {} THEN <<1>> \o [i \in 1..Len(bits) |-> 0]
        ELSE LET j == CHOOSE i \in zeros : \A k \in zeros : k <= i
             IN  [i \in 1..Len(bits) |-> IF i < j THEN bits[i] ELSE IF i = j THEN 1 ELSE 0]

AnyOne(bits) == \E i \in 1..Len(bits) : bits[i] = 1

\* Round the number ToInt(bits) * 2^e (plus a positive amount below one unit
\* of the last bit when sticky) to a float; Len(bits) > Prec.
RoundToFloat(bits, sticky, e) ==
    LET keep  == SubSeq(bits, 1, Prec)
        guard == bits[Prec + 1]
        rest  == sticky \/ AnyOne(SubSeq(bits, Prec + 2, Len(bits)))
        up    == guard = 1 /\ (rest \/ keep[Prec] = 1)
        inc   == IF up THEN IncBits(keep) ELSE keep
        e1    == e + (Len(bits) - Prec)
    IN  IF Len(inc) > Prec
        THEN [m |-> SubSeq(inc, 1, Prec), e |-> e1 + 1]
        ELSE [m |-> inc, e |-> e1]

\* a / b = n / d * 2^e with d <= n < 2d  (a > 0, b > 0).
RECURSIVE Normalize(_, _, _)
Normalize(a, b, e) ==
    IF a < b THEN Normalize(2 * a, b, e - 1)
    ELSE IF a >= 2 * b THEN Normalize(a, 2 * b, e + 1)
    ELSE [n |-> a, d |-> b, e |-> e]

\* Binary long division, ten bits a step: the bits of r / d after acc
\* (r < d < 2^21), until acc has at least n bits.
RECURSIVE DivStep(_, _, _, _)
DivStep(r, d, n, acc) ==
    IF Len(acc) >= n THEN [bits |-> acc, rem |-> r]
    ELSE DivStep((r * 1024) % d, d, n, acc \o Bits10((r * 1024) \div d))

\* The float nearest to a / b (a > 0, b > 0): what float("0.85") is for 850 / 1000.
FloatOfRatio(a, b) ==
    LET nz == Normalize(a, b, 0)
        q  == DivStep(nz.n - nz.d, nz.d, Prec + 1, <<1>>)
    IN  RoundToFloat(q.bits, q.rem # 0, nz.e - (Len(q.bits) - 1))

\* Exact product of a bit string and a small integer c, plus carry, ten bits a step.
RECURSIVE MulStep(_, _, _)
MulStep(bits, c, carry) ==
    IF Len(bits) <= 10 THEN ToBits(ToInt(bits) * c + carry)
    ELSE LET t == ToInt(SubSeq(bits, Len(bits) - 9, Len(bits))) * c + carry
         IN  MulStep(SubSeq(bits, 1, Len(bits) - 10), c, t \div 1024) \o Bits10(t % 1024)

\* x * c in float arithmetic, c a small positive integer (itself an exact float).
FloatMul(x, c) == RoundToFloat(MulStep(x.m, c, 0) \o <<0>>, FALSE, x.e - 1)

\* int(x) for a float x >= 0 below 2^Prec: the integer part.
FloatInt(x) ==
    IF x.e >= 0 THEN ToInt(x.m \o [i \in 1..x.e |-> 0])
    ELSE IF -x.e >= Prec THEN 0
    ELSE ToInt(SubSeq(x.m, 1, Prec + x.e))

(***************************************************************************)
(* Currency normalisation of add_stamp_to_collection.                      *)
(***************************************************************************)
\* int(value * 100) for value = milli / 1000.
EurCents(milli) ==
    IF milli = 0 THEN 0 ELSE FloatInt(FloatMul(FloatOfRatio(milli, 1000), 100))

\* int((value / 1936.27) * 100) for value = milli / 1000 below 193627.  The exact
\* quotient milli * 10 / 193627 is below 10^4 and, 193627 being odd and prime
\* to 10, lies at least 1 / 387254 away from every integer and every half
\* integer unless it is 0, while the three float roundings (of value, of the
\* division and of the product) move it by less than 10^-11: the integer part
\* of the float result is the integer part of the exact quotient.
ItlCents(milli) == (milli * 10) \div 193627

Currencies == {"EUR", "ITL"}

EuroCents(value, currency) ==
    IF currency = "EUR" THEN EurCents(value) ELSE ItlCents(value)

(***************************************************************************)
(* The store: tables stamps and postage_rates, each a function from the    *)
(* ids of its rows to the rows.                                            *)
(***************************************************************************)
MaxStampId == 2
MaxRateId == 3
MaxTime == 1

NoRate == 0     \* postage_rate_id None / NULL

\* The texts of the model in the order of SQLite's comparison of TEXT values.
TextOrder == <<"Europa", "Lettera", "Lira classic", "Pacco", "Raccomandata">>
Rank(text) == CHOOSE i \in 1..Len(TextOrder) : TextOrder[i] = text

VARIABLES stamps, postage_rates, now, last

vars == <<stamps, postage_rates, now, last>>

\* The rows init_data.sql inserts into an empty postage_rates table.
SeedRates(t) ==
    (1 :> [name |-> "Lettera", value |-> 110, max_weight |-> 20, updated_at |-> t])
    @@ (2 :> [name |-> "Raccomandata", value |-> 280, max_weight |-> 50, updated_at |-> t])

\* The rowid SQLite gives a row inserted with no id (INTEGER PRIMARY KEY).
NewRowid(table) ==
    IF DOMAIN table = {} THEN 1
    ELSE (CHOOSE i \in DOMAIN table : \A j \in DOMAIN table : j <= i) + 1

Without(table, ids) == [i \in DOMAIN table \ ids |-> table[i]]

\* The columns an INSERT leaves to the schema: updated_at DEFAULT CURRENT_TIMESTAMP.
InsertDefaults == [updated_at |-> now]

\* The last call made: the method, its arguments and what it returned (for
\* __init__, printed), or the exception it raised.
Called(op, args, ret) == [op |-> op, args |-> args, ret |-> ret, exc |-> "None"]
Raised(op, args, exc) == [op |-> op, args |-> args, ret |-> "None", exc |-> exc]

\* _load_initial_data: the seed script runs when postage_rates is empty.
LoadInitialData ==
    IF DOMAIN postage_rates = {}
    THEN /\ postage_rates' = SeedRates(now)
         /\ last' = Called("__init__", <<>>, "Initial postage rates loaded successfully!")
    ELSE /\ postage_rates' = postage_rates
         /\ last' = Called("__init__", <<>>, "None")

\* The first Database(db_path): a new file, the schema, the seed.
Init ==
    /\ stamps = <<>>
    /\ postage_rates = SeedRates(0)
    /\ now = 0
    /\ last = Called("__init__", <<>>, "Initial postage rates loaded successfully!")

\* A later Database(db_path) on the same file: the schema script creates
\* nothing anew, then _load_initial_data runs.
Construct ==
    /\ LoadInitialData
    /\ UNCHANGED <<stamps, now>>

\* Time passes between two calls (CURRENT_TIMESTAMP).
Tick ==
    /\ now < MaxTime
    /\ now' = now + 1
    /\ UNCHANGED <<stamps, postage_rates, last>>

\* if currency == 'EUR' ... else: the ITL rate for every other currency.
AddStampUnchecked(name, value, currency, n, rid) ==
    LET id == NewRowid(stamps)
    IN  /\ id <= MaxStampId
        /\ stamps' = stamps @@ (id :> ([name |-> name, value |-> value,
                                       currency |-> currency,
                                       euro_cents |-> EuroCents(value, currency),
                                       n |-> n, postage_rate_id |-> rid]
                                      @@ InsertDefaults))
        /\ last' = Called("add_stamp_to_collection", <<name, value, currency, n, rid>>, id)
        /\ UNCHANGED <<postage_rates, now>>

AddStamp(name, value, currency, n, rid) ==
    IF currency \in Currencies
    THEN LET id == NewRowid(stamps)
         IN  /\ id <= MaxStampId
             /\ stamps' = stamps @@ (id :> ([name |-> name, value |-> value,
                                            currency |-> currency,
                                            euro_cents |-> EuroCents(value, currency),
                                            n |-> n, postage_rate_id |-> rid]
                                           @@ InsertDefaults))
             /\ last' = Called("add_stamp_to_collection", <<name, value, currency, n, rid>>, id)
             /\ UNCHANGED <<postage_rates, now>>
    ELSE /\ last' = Raised("add_stamp_to_collection", <<name, value, currency, n, rid>>,
                         "ValueError")
         /\ UNCHANGED <<stamps, postage_rates, now>>

\* postage_rate_name of the LEFT JOIN: the name of the rate of that id, if any.
RateNameOf(rid) ==
    IF rid \in DOMAIN postage_rates THEN postage_rates[rid].name ELSE "NULL"

Listed(i) == [id |-> i, postage_rate_name |-> RateNameOf(stamps[i].postage_rate_id)] @@ stamps[i]

\* The sequences of the ids of a table in which the names ascend.
OrderedByName(table) ==
    {f \in [1..Cardinality(DOMAIN table) -> DOMAIN table] :
        /\ \A i, j \in DOMAIN f : i # j => f[i] # f[j]
        /\ \A i, j \in DOMAIN f : i < j => Rank(table[f[i]].name) <= Rank(table[f[j]].name)}

\* JOIN in place of LEFT JOIN: only the stamps whose rate exists.
GetStampCollectionInnerJoin ==
    LET joined == [i \in {j \in DOMAIN stamps : stamps[j].postage_rate_id \in DOMAIN postage_rates}
                     |-> stamps[i]]
    IN  /\ \E f \in OrderedByName(joined) :
              last' = Called("get_stamp_collection", <<>>, [k \in DOMAIN f |-> Listed(f[k])])
        /\ UNCHANGED <<stamps, postage_rates, now>>

GetStampCollection ==
    /\ \E f \in OrderedByName(stamps) :
          last' = Called("get_stamp_collection", <<>>, [k \in DOMAIN f |-> Listed(f[k])])
    /\ UNCHANGED <<stamps, postage_rates, now>>

\* UPDATE stamps SET n = ? with no WHERE id = ?: every row.
UpdateAllQuantities(stamp_id, new_quantity) ==
    /\ stamps' = [i \in DOMAIN stamps |->
                    [stamps[i] EXCEPT !.n = new_quantity, !.updated_at = now]]
    /\ last' = Called("update_stamp_quantity", <<stamp_id, new_quantity>>,
                      DOMAIN stamps # {})
    /\ UNCHANGED <<postage_rates, now>>

UpdateStampQuantity(stamp_id, new_quantity) ==
    /\ stamps' = [i \in DOMAIN stamps |->
                    IF i = stamp_id
                    THEN [stamps[i] EXCEPT !.n = new_quantity, !.updated_at = now]
                    ELSE stamps[i]]
    /\ last' = Called("update_stamp_quantity", <<stamp_id, new_quantity>>,
                      stamp_id \in DOMAIN stamps)
    /\ UNCHANGED <<postage_rates, now>>

DeleteStamp(stamp_id) ==
    /\ stamps' = Without(stamps, {stamp_id})
    /\ last' = Called("delete_stamp_from_collection", <<stamp_id>>,
                      stamp_id \in DOMAIN stamps)
    /\ UNCHANGED <<postage_rates, now>>

\* The count of the rows left after the DELETE in place of the rows deleted.
ClearReturnsRowsLeft ==
    /\ stamps' = <<>>
    /\ last' = Called("clear_stamp_collection", <<>>, 0)
    /\ UNCHANGED <<postage_rates, now>>

ClearStampCollection ==
    /\ stamps' = <<>>
    /\ last' = Called("clear_stamp_collection", <<>>, Cardinality(DOMAIN stamps))
    /\ UNCHANGED <<postage_rates, now>>

RateIdsNamed(name) == {i \in DOMAIN postage_rates : postage_rates[i].name = name}

\* The rows an INSERT OR REPLACE of that name deletes: postage_rates.name is UNIQUE.
ConflictingRates(name) == RateIdsNamed(name)

\* A plain INSERT into a table whose names need not differ.
AddPostageRateInsert(name, value, max_weight) ==
    LET id == NewRowid(postage_rates)
    IN  /\ id <= MaxRateId
        /\ postage_rates' = postage_rates
                            @@ (id :> ([name |-> name, value |-> value,
                                       max_weight |-> max_weight] @@ InsertDefaults))
        /\ last' = Called("add_postage_rate", <<name, value, max_weight>>, id)
        /\ UNCHANGED <<stamps, now>>

\* INSERT ... ON CONFLICT(name) DO UPDATE: the row of that name keeps its id.
AddPostageRateUpsert(name, value, max_weight) ==
    LET id == IF RateIdsNamed(name) = {} THEN NewRowid(postage_rates)
              ELSE CHOOSE i \in RateIdsNamed(name) : TRUE
    IN  /\ id <= MaxRateId
        /\ postage_rates' = Without(postage_rates, {id})
                            @@ (id :> ([name |-> name, value |-> value,
                                       max_weight |-> max_weight] @@ InsertDefaults))
        /\ last' = Called("add_postage_rate", <<name, value, max_weight>>, id)
        /\ UNCHANGED <<stamps, now>>

\* INSERT OR REPLACE: the new rowid is taken first, then the conflicting rows
\* are deleted, then the new row is inserted.
AddPostageRate(name, value, max_weight) ==
    LET id == NewRowid(postage_rates)
    IN  /\ id <= MaxRateId
        /\ postage_rates' = Without(postage_rates, ConflictingRates(name))
                            @@ (id :> ([name |-> name, value |-> value,
                                       max_weight |-> max_weight] @@ InsertDefaults))
        /\ last' = Called("add_postage_rate", <<name, value, max_weight>>, id)
        /\ UNCHANGED <<stamps, now>>

GetPostageRates ==
    /\ \E f \in OrderedByName(postage_rates) :
          last' = Called("get_postage_rates", <<>>,
                         [k \in DOMAIN f |-> [id |-> f[k]] @@ postage_rates[f[k]]])
    /\ UNCHANGED <<stamps, postage_rates, now>>

GetRateByName(name) ==
    /\ \/ \E i \in RateIdsNamed(name) :
             last' = Called("get_rate_by_name", <<name>>, [id |-> i] @@ postage_rates[i])
       \/ /\ RateIdsNamed(name) = {}
          /\ last' = Called("get_rate_by_name", <<name>>, "None")
    /\ UNCHANGED <<stamps, postage_rates, now>>

UpdateRate(name, new_value, new_max_weight) ==
    /\ postage_rates' = [i \in DOMAIN postage_rates |->
                           IF postage_rates[i].name = name
                           THEN [postage_rates[i] EXCEPT !.value = new_value,
                                                         !.max_weight = new_max_weight,
                                                         !.updated_at = now]
                           ELSE postage_rates[i]]
    /\ last' = Called("update_rate", <<name, new_value, new_max_weight>>,
                      RateIdsNamed(name) # {})
    /\ UNCHANGED <<stamps, now>>

\* return cursor.rowcount >= 0
DeleteRateReportsTrue(name) ==
    /\ postage_rates' = Without(postage_rates, RateIdsNamed(name))
    /\ last' = Called("delete_rate", <<name>>, TRUE)
    /\ UNCHANGED <<stamps, now>>

DeleteRate(name) ==
    /\ postage_rates' = Without(postage_rates, RateIdsNamed(name))
    /\ last' = Called("delete_rate", <<name>>, RateIdsNamed(name) # {})
    /\ UNCHANGED <<stamps, now>>

(***************************************************************************)
(* Specifications: the same operations over four families of calls.        *)
(***************************************************************************)
StampIds == 1..MaxStampId

\* Spec: every mutating operation, while time passes; stamps of one kind whose
\* quantities are updated, and one postage rate that comes and goes.
Next ==
    \/ Construct
    \/ Tick
    \/ AddStamp("Europa", 850, "EUR", 1, 2)
    \/ GetStampCollection
    \/ \E id \in StampIds : UpdateStampQuantity(id, 4)
    \/ \E id \in StampIds : DeleteStamp(id)
    \/ ClearStampCollection
    \/ AddPostageRate("Raccomandata", 295, 100)
    \/ \E name \in {"Raccomandata", "Pacco"} : UpdateRate(name, 295, 100)
    \/ \E name \in {"Raccomandata", "Pacco"} : DeleteRate(name)

Spec == Init /\ [][Next]_vars

\* SpecRates: the postage rates vary in name, value and weight, are deleted
\* and seeded again; the stamps refer to the rate of id 2.
RateNames == {"Lettera", "Raccomandata"}
RateInputs == {<<110, 20>>, <<295, 100>>}

NextRates ==
    \/ Construct
    \/ AddStamp("Europa", 850, "EUR", 1, 2)
    \/ GetStampCollection
    \/ ClearStampCollection
    \/ \E name \in RateNames, r \in RateInputs : AddPostageRate(name, r[1], r[2])
    \/ GetPostageRates
    \/ \E name \in RateNames \cup {"Pacco"} : GetRateByName(name)
    \/ \E name \in RateNames \cup {"Pacco"}, r \in RateInputs : UpdateRate(name, r[1], r[2])
    \/ \E name \in RateNames \cup {"Pacco"} : DeleteRate(name)

SpecRates == Init /\ [][NextRates]_vars

\* SpecList: the stamps vary in name and in the rate they refer to, and the
\* rate of id 2 is deleted, replaced and added again.
StampNames == {"Europa", "Lira classic"}
StampRateRefs == {NoRate, 2}

NextList ==
    \/ \E name \in StampNames, rid \in StampRateRefs : AddStamp(name, 850, "EUR", 1, rid)
    \/ GetStampCollection
    \/ \E id \in StampIds : DeleteStamp(id)
    \/ AddPostageRate("Raccomandata", 295, 100)
    \/ DeleteRate("Raccomandata")

SpecList == Init /\ [][NextList]_vars

\* SpecAdd: the stamps vary in value and currency.
Values == {850, 290, 296, 30000, 100000}
AnyCurrency == {"EUR", "ITL", "USD", "eur"}

NextAdd ==
    \/ \E v \in Values, c \in AnyCurrency : AddStamp("Lira classic", v, c, 1, NoRate)
    \/ AddStamp("Europa", 850, "EUR", 4, NoRate)
    \/ GetStampCollection
    \/ \E id \in StampIds : DeleteStamp(id)
    \/ ClearStampCollection

SpecAdd == Init /\ [][NextAdd]_vars

(***************************************************************************)
(* Properties.                                                             *)
(***************************************************************************)
\* The step is a call of the method op: every call sets last, and time does
\* not pass during a call.
IsCall(op) == now' = now /\ last'.op = op

\* round(x) for a float x >= 0 below 2^Prec: nearest integer, ties to even.
FloatRound(x) ==
    IF x.e >= 0 THEN FloatInt(x)
    ELSE IF -x.e > Prec THEN 0
    ELSE LET frac == SubSeq(x.m, Prec + x.e + 1, Prec)
             i    == FloatInt(x)
             up   == frac[1] = 1 /\ (AnyOne(SubSeq(frac, 2, Len(frac))) \/ i % 2 = 1)
         IN  IF up THEN i + 1 ELSE i

\* round(value * 100) for value = milli / 1000.
EurRound(milli) ==
    IF milli = 0 THEN 0 ELSE FloatRound(FloatMul(FloatOfRatio(milli, 1000), 100))

\* round((value / 1936.27) * 100) for value = milli / 1000 below 193627 (see ItlCents).
ItlRound(milli) ==
    LET q == (milli * 10) \div 193627
        r == (milli * 10) % 193627
    IN  IF 2 * r > 193627 \/ (2 * r = 193627 /\ q % 2 = 1) THEN q + 1 ELSE q

\* C1: every stored ITL stamp has euro_cents = round((value / 1936.27) * 100),
\* the conversion rounded to the nearest cent.
C1_ItlCentsRounded ==
    \A i \in DOMAIN stamps :
        stamps[i].currency = "ITL" => stamps[i].euro_cents = ItlRound(stamps[i].value)

\* C2: every stored EUR stamp has euro_cents = round(value * 100), the value
\* rounded to the nearest cent.
C2_EurCentsRounded ==
    \A i \in DOMAIN stamps :
        stamps[i].currency = "EUR" => stamps[i].euro_cents = EurRound(stamps[i].value)

\* C3: add_stamp_to_collection with a currency other than 'EUR' and 'ITL'
\* raises ValueError and leaves stamps and postage_rates as they were.
C3_UnsupportedCurrencyRejected ==
    [][(IsCall("add_stamp_to_collection") /\ last'.args[3] \notin {"EUR", "ITL"})
          => /\ last'.exc = "ValueError"
             /\ stamps' = stamps
             /\ postage_rates' = postage_rates]_vars

C3_Rejected ==
    /\ last.op = "add_stamp_to_collection"
    /\ last.args[3] = "USD"
    /\ last.exc = "ValueError"
    /\ DOMAIN stamps # {}

UniqueRateNames ==
    \A i, j \in DOMAIN postage_rates :
        postage_rates[i].name = postage_rates[j].name => i = j

\* C4: no two postage rates share a name; add_postage_rate leaves exactly one
\* row of its name, holding the new value and max_weight, and the
\* get_postage_rates that follows shows exactly one row of that name.
C4_RateNamesUnique ==
    /\ UniqueRateNames
    /\ [][/\ UniqueRateNames'
          /\ IsCall("add_postage_rate") =>
                \E i \in DOMAIN postage_rates' :
                    /\ \A j \in DOMAIN postage_rates' :
                          postage_rates'[j].name = last'.args[1] <=> j = i
                    /\ postage_rates'[i].value = last'.args[2]
                    /\ postage_rates'[i].max_weight = last'.args[3]
          /\ (last.op = "add_postage_rate" /\ IsCall("get_postage_rates")) =>
                \E k \in DOMAIN last'.ret :
                    /\ \A l \in DOMAIN last'.ret :
                          last'.ret[l].name = last.args[1] <=> l = k
                    /\ last'.ret[k].value = last.args[2]
                    /\ last'.ret[k].max_weight = last.args[3]]_vars

C4_Replaced ==
    /\ last.op = "add_postage_rate"
    /\ last.args = <<"Raccomandata", 295, 100>>
    /\ last.ret = 3
    /\ DOMAIN postage_rates = {1, 3}

C5_Refused ==
    /\ last'.ret = FALSE
    /\ last'.exc = "None"
    /\ stamps' = stamps
    /\ postage_rates' = postage_rates

\* C5: update_stamp_quantity and delete_stamp_from_collection on an id that is
\* not stored, and update_rate and delete_rate on a name that is not stored,
\* return False, raise nothing and leave stamps and postage_rates as they were.
C5_MissingKeyIsNoOp ==
    [][/\ ((IsCall("update_stamp_quantity") \/ IsCall("delete_stamp_from_collection"))
             /\ last'.args[1] \notin DOMAIN stamps) => C5_Refused
       /\ ((IsCall("update_rate") \/ IsCall("delete_rate"))
             /\ \A i \in DOMAIN postage_rates : postage_rates[i].name # last'.args[1])
          => C5_Refused]_vars

C5_MissingRate ==
    /\ last.op = "delete_rate"
    /\ last.args = <<"Pacco">>
    /\ last.ret = FALSE
    /\ DOMAIN postage_rates # {}
    /\ DOMAIN stamps # {}

\* C6: clear_stamp_collection removes every stamp, returns the number of
\* stamps there were and leaves postage_rates as it was; the
\* get_stamp_collection that follows returns no row.
C6_ClearRemovesAll ==
    [][/\ IsCall("clear_stamp_collection") =>
             /\ DOMAIN stamps' = {}
             /\ last'.ret = Cardinality(DOMAIN stamps)
             /\ postage_rates' = postage_rates
       /\ (last.op = "clear_stamp_collection" /\ IsCall("get_stamp_collection")) =>
             DOMAIN last'.ret = {}]_vars

C6_ClearedTwo ==
    /\ last.op = "clear_stamp_collection"
    /\ last.ret = 2
    /\ DOMAIN stamps = {}

\* C7: the seed is loaded by the first construction alone: no later
\* construction of the store on the same file loads it.
C7_SeedLoadedOnce ==
    [][IsCall("__init__") => /\ postage_rates' = postage_rates
                             /\ last'.ret = "None"]_vars

\* C8: get_stamp_collection returns every stored stamp exactly once, the names
\* ascending, each with the name of the rate its postage_rate_id refers to,
\* or NULL when it is null or refers to no rate; delete_rate leaves every
\* stamp as it was.
C8_ListingAndDanglingRates ==
    [][/\ IsCall("get_stamp_collection") =>
             LET rows == last'.ret
             IN  /\ Cardinality(DOMAIN rows) = Cardinality(DOMAIN stamps)
                 /\ \A i \in DOMAIN stamps : \E k \in DOMAIN rows : rows[k].id = i
                 /\ \A k, l \in DOMAIN rows :
                       k < l => Rank(rows[k].name) <= Rank(rows[l].name)
                 /\ \A k \in DOMAIN rows :
                       /\ rows[k].id \in DOMAIN stamps
                       /\ LET s == stamps[rows[k].id]
                          IN  /\ \A col \in DOMAIN s : rows[k][col] = s[col]
                              /\ rows[k].postage_rate_name =
                                    IF /\ s.postage_rate_id # NoRate
                                       /\ s.postage_rate_id \in DOMAIN postage_rates
                                    THEN postage_rates[s.postage_rate_id].name
                                    ELSE "NULL"
       /\ IsCall("delete_rate") => stamps' = stamps]_vars

C8_ListedDangling ==
    /\ last.op = "get_stamp_collection"
    /\ DOMAIN last.ret = {1, 2}
    /\ last.ret[1].id = 2
    /\ last.ret[2].id = 1
    /\ last.ret[1].postage_rate_id = 2
    /\ last.ret[1].postage_rate_name = "NULL"
    /\ last.ret[2].postage_rate_id = NoRate
    /\ 2 \notin DOMAIN postage_rates

\* C9: update_stamp_quantity on a stored id returns True and changes only the
\* n and updated_at of that stamp, no other stamp and no postage rate; and no
\* step changes the name, value, currency or euro_cents of a stamp that stays
\* stored.
C9_OnlyQuantityChanges ==
    [][/\ (IsCall("update_stamp_quantity") /\ last'.args[1] \in DOMAIN stamps) =>
             LET id == last'.args[1]
             IN  /\ last'.ret = TRUE
                 /\ DOMAIN stamps' = DOMAIN stamps
                 /\ stamps'[id] = [stamps[id] EXCEPT !.n = last'.args[2],
                                                     !.updated_at = stamps'[id].updated_at]
                 /\ \A j \in DOMAIN stamps \ {id} : stamps'[j] = stamps[j]
                 /\ postage_rates' = postage_rates
       /\ \A i \in DOMAIN stamps \cap DOMAIN stamps' :
             /\ stamps'[i].name = stamps[i].name
             /\ stamps'[i].value = stamps[i].value
             /\ stamps'[i].currency = stamps[i].currency
             /\ stamps'[i].euro_cents = stamps[i].euro_cents]_vars

C9_UpdatedOne ==
    /\ last.op = "update_stamp_quantity"
    /\ last.args = <<2, 4>>
    /\ last.ret = TRUE
    /\ DOMAIN stamps = {1, 2}
    /\ stamps[2].n = 4
    /\ stamps[2].updated_at = 1
    /\ stamps[1].n = 1
    /\ stamps[1].updated_at = 0

\* C10: add_postage_rate on a name that is stored removes the id of the old
\* row from postage_rates and returns the id of the new row, which holds the
\* name, value and max_weight given; it leaves the stamps as they were, and a
\* stamp that referred to the old id is listed with a null rate name unless
\* the new row has that id.
C10_ReplaceChangesId ==
    [][(IsCall("add_postage_rate")
          /\ \E i \in DOMAIN postage_rates : postage_rates[i].name = last'.args[1]) =>
          LET old == {i \in DOMAIN postage_rates : postage_rates[i].name = last'.args[1]}
              new == last'.ret
          IN  /\ old \cap DOMAIN postage_rates' = {}
              /\ new \in DOMAIN postage_rates'
              /\ postage_rates'[new].name = last'.args[1]
              /\ postage_rates'[new].value = last'.args[2]
              /\ postage_rates'[new].max_weight = last'.args[3]
              /\ stamps' = stamps
              /\ \A i \in DOMAIN stamps :
                    stamps[i].postage_rate_id \in old =>
                       \/ new = stamps[i].postage_rate_id
                       \/ RateNameOf(stamps[i].postage_rate_id)' = "NULL"]_vars

C10_ReplacedReferenced ==
    /\ last.op = "add_postage_rate"
    /\ last.args[1] = "Raccomandata"
    /\ last.ret = 3
    /\ DOMAIN postage_rates = {1, 3}
    /\ \E i \in DOMAIN stamps : stamps[i].postage_rate_id = 2

====
